---- MODULE Spec2Model ----
(***************************************************************************)
(* Model of frontend/src/App.js: the root component App holds two useState *)
(* cells (view, isAdminLoggedIn), renders two navigation buttons and       *)
(* exactly one of ChatInterface / AdminDashboard, and hands the            *)
(* AdminDashboard the flag together with its raw state setter.             *)
(*                                                                         *)
(* JavaScript runs every handler to completion and React commits the       *)
(* re-render an update causes before the next event is handled, so every   *)
(* action below is one handler: the state update, the render of App and    *)
(* the reconciliation of the children of App-main.                         *)
(***************************************************************************)
EXTENDS Integers, Sequences, FiniteSets

\* ---- bounds -------------------------------------------------------------
MaxWindow == 3      \* events remembered in the history window
MaxInflight == 2    \* asynchronous flows of the admin surface still pending
MaxLocal == 1       \* steps a surface takes away from its initial local state

\* ---- vocabulary ---------------------------------------------------------
Views == {"chat", "admin"}
Surfaces == {"ChatInterface", "AdminDashboard"}
\* mutant: the shell opens on the dashboard
InitViewAdmin == "admin"

InitView == "chat"

\* mutant: the flag starts set
InitIsAdminLoggedInTrue == TRUE

InitIsAdminLoggedIn == FALSE
InitLocal == 0
WriteArgs == BOOLEAN

VARIABLES
    view,              \* useState cell of line 9
    isAdminLoggedIn,   \* useState cell of line 10
    active,            \* navigation buttons whose className is 'active'
    mounted,           \* surfaces present under App-main after the commit
    adminProps,        \* props the AdminDashboard element was rendered with
    local,             \* each surface's own component state
    discarded,         \* history: local state a surface lost at its last unmount
    inflight,          \* arguments of pending asynchronous setIsLoggedIn calls
    base,              \* history: state before the events of the window
    window,            \* history: the last MaxWindow events, oldest first
    handled,           \* history: some event has been handled since mount
    wroteTrue,         \* history: setIsLoggedIn(true) has been invoked
    flagType,          \* typeof the value held by the cell of line 10
    failed             \* an error left App uncaught and React unmounted the root

vars == <<view, isAdminLoggedIn, active, mounted, adminProps, local, discarded,
          inflight, base, window, handled, wroteTrue, flagType, failed>>

\* ---- events and their one-at-a-time meaning ------------------------------
NavEvent(target) == [kind |-> "nav", target |-> target, value |-> FALSE]

WriteEvent(arg) == [kind |-> "write", target |-> "none", value |-> arg]

Apply(s, e) ==
    IF e.kind = "nav" THEN [s EXCEPT !.view = e.target]
                      ELSE [s EXCEPT !.flag = e.value]

RECURSIVE Replay(_, _)
Replay(s, es) == IF es = << >> THEN s ELSE Replay(Apply(s, Head(es)), Tail(es))

\* ---- React: state cells, render, reconciliation ---------------------------
\* useState's reducer for a plain (non-function) argument: the argument wins.
BasicStateReducer(state, action) == action

\* mutant: both className expressions test view === 'chat'
RenderActiveSameTest(v) == {b \in Views : v = "chat"}

\* className of the two buttons (lines 20 and 26).
RenderActive(v) == {b \in Views : v = b}

\* mutant: the chat surface is always rendered and the dashboard added to it
RenderMainKeepChat(v) ==
    {"ChatInterface"} \cup (IF v = "admin" THEN {"AdminDashboard"} ELSE {})

\* children of App-main (lines 35-42): the ternary yields one element.
RenderMain(v) == IF v = "chat" THEN {"ChatInterface"} ELSE {"AdminDashboard"}

\* mutant: the dashboard is handed the initial value instead of the cell
RenderAdminPropsInitial(v, flag) ==
    IF v = "chat"
    THEN {}
    ELSE {[isLoggedIn |-> InitIsAdminLoggedIn, setIsLoggedIn |-> "setIsAdminLoggedIn"]}

\* props of the AdminDashboard element (lines 38-41), none when not rendered.
RenderAdminProps(v, flag) ==
    IF "AdminDashboard" \in RenderMain(v)
    THEN {[isLoggedIn |-> flag, setIsLoggedIn |-> "setIsAdminLoggedIn"]}
    ELSE {}

\* mutant: the inactive surface is hidden, not unmounted, and keeps its state
ReconcileLocalKeep(old, new) == local

\* mutant: every render gives the child a new key, so it always remounts
ReconcileLocalRemount(old, new) == [s \in Surfaces |-> InitLocal]

\* Reconciliation: a surface that stays keeps its state, one that appears
\* starts from its initial state, one that disappears loses its state.
ReconcileLocal(old, new) ==
    [s \in Surfaces |-> IF s \in old /\ s \in new THEN local[s] ELSE InitLocal]

ReconcileDiscarded(old, new) ==
    [s \in Surfaces |-> IF s \in old /\ s \notin new THEN local[s] ELSE discarded[s]]

\* Render of App with the given cell values, committed.
Commit(v, flag) ==
    /\ active' = RenderActive(v)
    /\ mounted' = RenderMain(v)
    /\ adminProps' = RenderAdminProps(v, flag)
    /\ local' = ReconcileLocal(mounted, RenderMain(v))
    /\ discarded' = ReconcileDiscarded(mounted, RenderMain(v))

\* history bookkeeping of one handled event
Log(e) ==
    /\ handled' = TRUE
    /\ IF Len(window) < MaxWindow
       THEN /\ window' = Append(window, e)
            /\ base' = base
       ELSE /\ window' = Append(Tail(window), e)
            /\ base' = Apply(base, Head(window))

\* mutant: the buttons toggle the view instead of selecting their own
SetViewToggle(target) ==
    /\ view' = (IF view = "chat" THEN "admin" ELSE "chat")
    /\ isAdminLoggedIn' = isAdminLoggedIn
    /\ Commit(view', isAdminLoggedIn')

\* mutant: every view switch logs the admin out
SetViewLogout(target) ==
    /\ view' = BasicStateReducer(view, target)
    /\ isAdminLoggedIn' = FALSE
    /\ Commit(view', isAdminLoggedIn')

\* mutant: leaving for the chat logs the admin out
SetViewLogoutOnLeave(target) ==
    /\ view' = BasicStateReducer(view, target)
    /\ isAdminLoggedIn' = (IF target = "chat" THEN FALSE ELSE isAdminLoggedIn)
    /\ Commit(view', isAdminLoggedIn')

\* mutant: the dashboard is selectable only once logged in
SetViewGated(target) ==
    /\ view' = (IF target = "admin" /\ ~isAdminLoggedIn THEN view ELSE target)
    /\ isAdminLoggedIn' = isAdminLoggedIn
    /\ Commit(view', isAdminLoggedIn')

\* mutant: the navigation works from the chat view only
SetViewFromChatOnly(target) ==
    /\ view = "chat"
    /\ view' = BasicStateReducer(view, target)
    /\ isAdminLoggedIn' = isAdminLoggedIn
    /\ Commit(view', isAdminLoggedIn')

\* setView(target), lines 21 and 27
SetView(target) ==
    /\ view' = BasicStateReducer(view, target)
    /\ isAdminLoggedIn' = isAdminLoggedIn
    /\ Commit(view', isAdminLoggedIn')

\* mutant: a logout also sends the user back to the chat
SetIsAdminLoggedInGoChat(arg) ==
    /\ isAdminLoggedIn' = BasicStateReducer(isAdminLoggedIn, arg)
    /\ view' = (IF arg = FALSE THEN "chat" ELSE view)
    /\ Commit(view', isAdminLoggedIn')

\* mutant: the render after a write still uses the flag of before the write
SetIsAdminLoggedInStale(arg) ==
    /\ isAdminLoggedIn' = BasicStateReducer(isAdminLoggedIn, arg)
    /\ view' = view
    /\ Commit(view', isAdminLoggedIn)

\* mutant: once set the flag stays set
SetIsAdminLoggedInSticky(arg) ==
    /\ isAdminLoggedIn' = (isAdminLoggedIn \/ arg)
    /\ view' = view
    /\ Commit(view', isAdminLoggedIn')

\* setIsAdminLoggedIn(arg), the setter of line 10 handed down at line 40
SetIsAdminLoggedIn(arg) ==
    /\ isAdminLoggedIn' = BasicStateReducer(isAdminLoggedIn, arg)
    /\ view' = view
    /\ Commit(view', isAdminLoggedIn')

RemoveAt(seq, i) == [j \in 1..(Len(seq) - 1) |-> IF j < i THEN seq[j] ELSE seq[j + 1]]

\* ---- initial state: App mounted, first render committed -------------------
Init ==
    /\ view = InitView
    /\ isAdminLoggedIn = InitIsAdminLoggedIn
    /\ active = RenderActive(InitView)
    /\ mounted = RenderMain(InitView)
    /\ adminProps = RenderAdminProps(InitView, InitIsAdminLoggedIn)
    /\ local = [s \in Surfaces |-> InitLocal]
    /\ discarded = [s \in Surfaces |-> InitLocal]
    /\ inflight = << >>
    /\ base = [view |-> InitView, flag |-> InitIsAdminLoggedIn]
    /\ window = << >>
    /\ handled = FALSE
    /\ wroteTrue = FALSE
    /\ flagType = "boolean"
    /\ failed = FALSE

\* ---- actions --------------------------------------------------------------
\* click on a navigation button (lines 19-30)
SelectView(target) ==
    /\ SetView(target)
    /\ Log(NavEvent(target))
    /\ UNCHANGED <<inflight, wroteTrue, flagType, failed>>

\* the mounted AdminDashboard calls props.setIsLoggedIn(arg) in a handler
AdminWrite(arg) ==
    /\ "AdminDashboard" \in mounted
    /\ SetIsAdminLoggedIn(arg)
    /\ Log(WriteEvent(arg))
    /\ wroteTrue' = (wroteTrue \/ arg = TRUE)
    /\ flagType' = "boolean"
    /\ UNCHANGED <<inflight, failed>>

\* the mounted AdminDashboard starts a flow that will call setIsLoggedIn(arg)
AdminStartAsync(arg) ==
    /\ "AdminDashboard" \in mounted
    /\ Len(inflight) < MaxInflight
    /\ inflight' = Append(inflight, arg)
    /\ UNCHANGED <<view, isAdminLoggedIn, active, mounted, adminProps, local,
                   discarded, base, window, handled, wroteTrue, flagType, failed>>

\* a pending flow completes and calls the setter it captured
AsyncComplete(i) ==
    /\ i \in 1..Len(inflight)
    /\ SetIsAdminLoggedIn(inflight[i])
    /\ Log(WriteEvent(inflight[i]))
    /\ wroteTrue' = (wroteTrue \/ inflight[i] = TRUE)
    /\ inflight' = RemoveAt(inflight, i)
    /\ flagType' = "boolean"
    /\ UNCHANGED failed

\* a mounted surface changes its own component state
SurfaceStep(s) ==
    /\ s \in mounted
    /\ local[s] < MaxLocal
    /\ local' = [local EXCEPT ![s] = @ + 1]
    /\ UNCHANGED <<view, isAdminLoggedIn, active, mounted, adminProps,
                   discarded, inflight, base, window, handled, wroteTrue,
                   flagType, failed>>

Navigate == \E target \in Views : SelectView(target)

Write == \E arg \in WriteArgs : AdminWrite(arg)

StartAsync == \E arg \in WriteArgs : AdminStartAsync(arg)

Complete == \E i \in 1..MaxInflight : AsyncComplete(i)

Step == \E s \in Surfaces : SurfaceStep(s)

Next == Navigate \/ Write \/ StartAsync \/ Complete \/ Step

Spec == Init /\ [][Next]_vars

\* ---- helpers for the properties --------------------------------------------
\* some invocation of the write capability with this argument happens
WriteInvoked(arg) ==
    \/ AdminWrite(arg)
    \/ \E i \in 1..MaxInflight : i <= Len(inflight) /\ inflight[i] = arg /\ AsyncComplete(i)

AnyWrite == \E arg \in WriteArgs : WriteInvoked(arg)

NavIndexes == {i \in 1..Len(window) : window[i].kind = "nav"}

LastNavTarget == window[CHOOSE i \in NavIndexes : \A j \in NavIndexes : j <= i].target

SurfaceOf(v) == IF v = "chat" THEN "ChatInterface" ELSE "AdminDashboard"

PropsWith(flag) == [isLoggedIn |-> flag, setIsLoggedIn |-> "setIsAdminLoggedIn"]

\* C1: after any non-empty sequence of navigation activations, interleaved
\* with any writes, view is the target of the last activated control.
C1_LastNavWins == NavIndexes # {} => view = LastNavTarget

C1_Witness ==
    /\ window = <<NavEvent("chat"), NavEvent("admin"), WriteEvent(TRUE)>>
    /\ view = "admin"

\* C2: exactly one surface is rendered, the chat surface iff view = chat and
\* the admin surface iff view = admin.
C2_ExactlyOneSurface ==
    /\ Cardinality(mounted) = 1
    /\ ("ChatInterface" \in mounted) <=> (view = "chat")
    /\ ("AdminDashboard" \in mounted) <=> (view = "admin")

C2_Witness ==
    /\ handled
    /\ mounted = {"AdminDashboard"}
    /\ discarded["ChatInterface"] > 0

\* C3: before any event is handled view = chat, the chat surface is the
\* rendered one and isAdminLoggedIn = false.
C3_InitialState ==
    ~handled => /\ view = "chat"
                /\ mounted = {"ChatInterface"}
                /\ isAdminLoggedIn = FALSE

C3_Witness == ~handled /\ window = << >> /\ local["ChatInterface"] = InitLocal

\* C4: a write of true while view = admin makes the render committed by that
\* very step hand the admin surface isLoggedIn = true.
C4_WriteTrueSeenNextRender ==
    [][(view = "admin" /\ WriteInvoked(TRUE))
        => ("AdminDashboard" \in mounted' /\ adminProps' = {PropsWith(TRUE)})]_vars

C4_Witness ==
    /\ Len(window) >= 2
    /\ window[Len(window) - 1] = NavEvent("admin")
    /\ window[Len(window)] = WriteEvent(TRUE)
    /\ adminProps = {PropsWith(TRUE)}

\* C5: a navigation activation never changes isAdminLoggedIn, and an admin
\* surface mounted by it receives the unchanged flag.
C5_NavKeepsFlag ==
    [][Navigate => /\ isAdminLoggedIn' = isAdminLoggedIn
                   /\ (view' = "admin" => adminProps' = {PropsWith(isAdminLoggedIn)})]_vars

C5_Witness ==
    /\ window = <<WriteEvent(TRUE), NavEvent("chat"), NavEvent("admin")>>
    /\ adminProps = {PropsWith(TRUE)}
    /\ local["AdminDashboard"] = InitLocal

\* C6: a write never changes view, and view changes only in a navigation
\* activation.
C6_OnlyNavChangesView ==
    [][(AnyWrite => view' = view) /\ (view' # view => Navigate)]_vars

C6_Witness ==
    /\ window = <<NavEvent("admin"), WriteEvent(TRUE), WriteEvent(FALSE)>>
    /\ view = "admin"
    /\ isAdminLoggedIn = FALSE

\* C7: isAdminLoggedIn is true only if the write capability has been invoked
\* with true before.
C7_TrueOnlyAfterWriteTrue == isAdminLoggedIn = TRUE => wroteTrue

C7_Witness == isAdminLoggedIn = TRUE /\ wroteTrue /\ view = "chat"

\* C8: a switch of view unmounts the surface that was active, so the surface
\* it mounts starts from its initial local state and the other holds none.
C8_SwitchDiscardsLocal ==
    [][view' # view => /\ SurfaceOf(view) \notin mounted'
                       /\ mounted' = {SurfaceOf(view')}
                       /\ \A s \in Surfaces : local'[s] = InitLocal]_vars

C8_Witness ==
    /\ discarded["AdminDashboard"] > 0
    /\ discarded["ChatInterface"] > 0
    /\ mounted = {"AdminDashboard"}
    /\ local["AdminDashboard"] = InitLocal

\* C9: every committed pair (view, flag), and the render of it, is the result
\* of applying the handled events one at a time in order.
C9_AtomicEvents ==
    LET s == Replay(base, window)
    IN /\ s = [view |-> view, flag |-> isAdminLoggedIn]
       /\ mounted = {SurfaceOf(s.view)}
       /\ adminProps = (IF s.view = "admin" THEN {PropsWith(s.flag)} ELSE {})

C9_Witness ==
    /\ window = <<WriteEvent(TRUE), NavEvent("chat"), WriteEvent(FALSE)>>
    /\ base = [view |-> "admin", flag |-> FALSE]
    /\ view = "chat"
    /\ isAdminLoggedIn = FALSE

\* C10 as stated: isAdminLoggedIn changes only in states where view = admin.
C10_ChangesOnlyInAdminView ==
    [][isAdminLoggedIn' # isAdminLoggedIn => view = "admin"]_vars

\* C10 amended: isAdminLoggedIn changes only in an invocation of the write
\* capability, and the capability is taken only while view = admin; a pending
\* invocation that completes after the switch to chat still changes the flag.
C10_ChangesOnlyByWrite ==
    [][/\ (isAdminLoggedIn' # isAdminLoggedIn => WriteInvoked(isAdminLoggedIn'))
       /\ (Len(inflight') > Len(inflight) => view = "admin")
       /\ (isAdminLoggedIn' # isAdminLoggedIn /\ view # "admin" => Len(inflight') < Len(inflight))]_vars

C10_Witness ==
    /\ window = <<NavEvent("admin"), NavEvent("chat"), WriteEvent(TRUE)>>
    /\ base.flag = FALSE
    /\ view = "chat"
    /\ isAdminLoggedIn = TRUE

WriteIndexes == {i \in 1..Len(window) : window[i].kind = "write"}

LastWriteValue == window[CHOOSE i \in WriteIndexes : \A j \in WriteIndexes : j <= i].value

\* C11: activating the control of the current view changes neither cell,
\* keeps the mounted surface mounted with its local state and its props.
C11_SelfNavIsNoOp ==
    [][\A t \in Views : (t = view /\ SelectView(t))
          => /\ view' = view
             /\ isAdminLoggedIn' = isAdminLoggedIn
             /\ mounted' = mounted
             /\ local' = local
             /\ discarded' = discarded
             /\ adminProps' = adminProps
             /\ active' = active]_vars

C11_Witness ==
    /\ Len(window) >= 2
    /\ window[Len(window) - 1] = NavEvent("admin")
    /\ window[Len(window)] = NavEvent("admin")
    /\ local["AdminDashboard"] > InitLocal
    /\ discarded["AdminDashboard"] = InitLocal

\* C12: after any writes isAdminLoggedIn is the argument of the last one,
\* whatever navigation happened in between, and a mounted admin surface
\* receives that value.
C12_LastWriteWins ==
    WriteIndexes # {} =>
        /\ isAdminLoggedIn = LastWriteValue
        /\ (view = "admin" => adminProps = {PropsWith(LastWriteValue)})

C12_Witness ==
    /\ window = <<WriteEvent(TRUE), WriteEvent(FALSE), NavEvent("admin")>>
    /\ adminProps = {PropsWith(FALSE)}

\* C13: activating the Admin control is possible in every state and always
\* mounts the admin surface with the current flag, logged in or not.
C13_AdminNotGated ==
    /\ [](ENABLED SelectView("admin"))
    /\ [][SelectView("admin") => /\ view' = "admin"
                                 /\ mounted' = {"AdminDashboard"}
                                 /\ adminProps' = {PropsWith(isAdminLoggedIn)}]_vars

C13_Witness ==
    /\ window = <<NavEvent("admin")>>
    /\ view = "admin"
    /\ ~wroteTrue
    /\ adminProps = {PropsWith(FALSE)}

\* C14: in every reachable state each navigation control can be activated
\* and its activation reaches its view in one step.
C14_NavAlwaysEnabled ==
    \A t \in Views : ENABLED (SelectView(t) /\ view' = t)

C14_Witness ==
    /\ view = "admin"
    /\ isAdminLoggedIn
    /\ Len(inflight) = MaxInflight
    /\ local["AdminDashboard"] = MaxLocal

\* C15: exactly one navigation control is marked active, the one of view,
\* and it is the one of the rendered surface.
C15_ActiveMatchesView ==
    /\ Cardinality(active) = 1
    /\ ("chat" \in active) <=> (view = "chat")
    /\ ("admin" \in active) <=> (view = "admin")
    /\ \A b \in active : mounted = {SurfaceOf(b)}

C15_Witness ==
    /\ active = {"admin"}
    /\ mounted = {"AdminDashboard"}
    /\ window = <<NavEvent("chat"), NavEvent("admin")>>

\* ---- reload: the page unmounts App and mounts it afresh ---------------------
\* mutant: the two cells are restored from what they held before the reload
ReloadPersisted ==
    /\ view' = view
    /\ isAdminLoggedIn' = isAdminLoggedIn
    /\ Commit(view', isAdminLoggedIn')
    /\ inflight' = << >>
    /\ base' = [view |-> view, flag |-> isAdminLoggedIn]
    /\ window' = << >>
    /\ handled' = FALSE
    /\ wroteTrue' = FALSE
    /\ flagType' = "boolean"
    /\ failed' = FALSE

\* Every mounted surface is unmounted, pending calls die with the page, and
\* the new mount starts from the useState defaults of lines 9-10.
Reload ==
    /\ view' = InitView
    /\ isAdminLoggedIn' = InitIsAdminLoggedIn
    /\ active' = RenderActive(InitView)
    /\ mounted' = RenderMain(InitView)
    /\ adminProps' = RenderAdminProps(InitView, InitIsAdminLoggedIn)
    /\ local' = [s \in Surfaces |-> InitLocal]
    /\ discarded' = [s \in Surfaces |-> IF s \in mounted THEN local[s] ELSE discarded[s]]
    /\ inflight' = << >>
    /\ base' = [view |-> InitView, flag |-> InitIsAdminLoggedIn]
    /\ window' = << >>
    /\ handled' = FALSE
    /\ wroteTrue' = FALSE
    /\ flagType' = "boolean"
    /\ failed' = FALSE

NextReload == Next \/ Reload

SpecReload == Init /\ [][NextReload]_vars

\* C17: a reload from any reachable state gives view = chat and
\* isAdminLoggedIn = false again, with the chat surface rendered.
C17_ReloadResets ==
    [][Reload => /\ view' = "chat"
                 /\ isAdminLoggedIn' = FALSE
                 /\ mounted' = {"ChatInterface"}
                 /\ active' = {"chat"}
                 /\ adminProps' = {}]_vars

C17_Witness ==
    /\ ~handled
    /\ discarded["AdminDashboard"] > InitLocal
    /\ view = "chat"
    /\ isAdminLoggedIn = FALSE

\* ---- the setter with arbitrary JavaScript arguments -------------------------
\* A JavaScript value is kept as its typeof and its truthiness.  The cell of
\* line 10 is the pair (flagType, isAdminLoggedIn).
JsValue(type, truthy) == [type |-> type, truthy |-> truthy]

\* arguments other than a plain boolean: a token string, undefined and the
\* updater function prev => !prev
RawArgs == {JsValue("string", TRUE), JsValue("undefined", FALSE), JsValue("function", TRUE)}

\* mutant: an updater function is stored instead of being called
BasicStateReducerJsNoUpdater(state, action) == action

\* useState's reducer: typeof action === 'function' ? action(state) : action
BasicStateReducerJs(state, action) ==
    IF action.type = "function"
    THEN JsValue("boolean", ~state.truthy)
    ELSE action

\* setIsAdminLoggedIn(raw): the setter stores what it is given, unchecked
SetIsAdminLoggedInRaw(raw) ==
    LET next == BasicStateReducerJs(JsValue(flagType, isAdminLoggedIn), raw)
    IN /\ isAdminLoggedIn' = next.truthy
       /\ flagType' = next.type
       /\ view' = view
       /\ Commit(view', isAdminLoggedIn')

\* the mounted AdminDashboard calls props.setIsLoggedIn with such an argument
AdminWriteRaw(raw) ==
    /\ "AdminDashboard" \in mounted
    /\ SetIsAdminLoggedInRaw(raw)
    /\ Log(WriteEvent(isAdminLoggedIn'))
    /\ wroteTrue' = (wroteTrue \/ (flagType' = "boolean" /\ isAdminLoggedIn'))
    /\ UNCHANGED <<inflight, failed>>

WriteRaw == \E raw \in RawArgs : AdminWriteRaw(raw)

NextRaw == Next \/ WriteRaw

SpecRaw == Init /\ [][NextRaw]_vars

NonBooleanWrite == \E raw \in RawArgs : raw.type # "function" /\ AdminWriteRaw(raw)

\* C16 as stated: the cell holds a boolean whatever argument is passed.
C16_FlagAlwaysBoolean == flagType = "boolean"

\* C16 amended: the cell starts as a boolean and stops being one only in a
\* write whose argument is neither a boolean nor an updater; such a write
\* stores the argument's own type, and a boolean write makes it boolean again.
C16_BooleanUnlessNonBooleanWritten ==
    /\ flagType = "boolean"
    /\ [][/\ (flagType = "boolean" /\ flagType' # "boolean") => NonBooleanWrite
          /\ \A raw \in RawArgs : (raw.type # "function" /\ AdminWriteRaw(raw))
                                      => flagType' = raw.type
          /\ AnyWrite => flagType' = "boolean"]_vars

C16_Witness ==
    /\ flagType = "string"
    /\ view = "admin"
    /\ adminProps = {PropsWith(TRUE)}

\* ---- a surface fails while rendering ----------------------------------------
\* mutant: App catches the error and shows the other surface instead
PropagateFallback(s) ==
    /\ failed' = FALSE
    /\ active' = active
    /\ mounted' = Surfaces \ {s}
    /\ adminProps' = {}
    /\ local' = [t \in Surfaces |-> InitLocal]
    /\ discarded' = [t \in Surfaces |-> IF t \in mounted THEN local[t] ELSE discarded[t]]
    /\ UNCHANGED <<view, isAdminLoggedIn, flagType>>

\* App renders the surfaces directly (lines 34-43) and is no error boundary:
\* the error of surface s leaves App uncaught and React unmounts the root,
\* header, buttons and surfaces included.
Propagate(s) ==
    /\ failed' = TRUE
    /\ active' = {}
    /\ mounted' = {}
    /\ adminProps' = {}
    /\ local' = [t \in Surfaces |-> InitLocal]
    /\ discarded' = [t \in Surfaces |-> IF t \in mounted THEN local[t] ELSE discarded[t]]
    /\ UNCHANGED <<view, isAdminLoggedIn, flagType>>

\* a mounted surface throws in its own render or logic
SurfaceThrows(s) ==
    /\ ~failed
    /\ s \in mounted
    /\ Propagate(s)
    /\ UNCHANGED <<inflight, base, window, handled, wroteTrue>>

Throw == \E s \in Surfaces : SurfaceThrows(s)

\* Once the root is unmounted no control exists and a setter call on the
\* unmounted component changes nothing.
Running == ~failed /\ Next

NextFail == Running \/ Throw

SpecFail == Init /\ [][NextFail]_vars

\* C18: a surface's failure leaves App with nothing rendered in its place
\* (no fallback, no other surface), App does not carry on after it, and no
\* step of App itself (navigation, write, surface step) ends in failure.
C18_FailurePropagates ==
    /\ [](failed => (mounted = {} /\ active = {} /\ adminProps = {}))
    /\ [][/\ Throw => failed'
          /\ (failed' /\ ~failed) => Throw
          /\ Next => ~failed'
          /\ failed => failed']_vars

C18_Witness ==
    /\ failed
    /\ view = "admin"
    /\ discarded["AdminDashboard"] > InitLocal
    /\ mounted = {}

====
